---- MODULE Spec2Model ----
(***************************************************************************)
(* Behavioural cloning driver of src/imitation.py: the Imitation class      *)
(* (run_expert, run_model, generate_episode, train, evaluate, plot) and     *)
(* main's mode dispatch.  The policy networks and the gym environment are   *)
(* external: a network is the table of the probability vectors it predicts, *)
(* one per observation; the environment answers reset and step with any     *)
(* observation, reward and done flag.                                       *)
(***************************************************************************)
EXTENDS Integers, Sequences, FiniteSets, TLC

\* ------------------------------------------------------------------ bounds
MaxSteps == 3
MaxEpisodes == 1
MaxEpochs == 2
MaxEvalEpisodes == 1
NActions == 2

\* Value domains of the external collaborators.
Observations == {0, 1}
Rewards == {0, 1}
\* What fit may report for one epoch.
EpochMetrics == {[loss |-> 5, acc |-> 1], [loss |-> 1, acc |-> 3]}
Actions == 0 .. (NActions - 1)
\* What predict may return for one observation: unnormalised probabilities
\* with one action more likely than the others.
ProbVectors == {[a \in Actions |-> IF a = best THEN 2 ELSE 1] : best \in Actions}
Networks == [Observations -> ProbVectors]
Files == {"model", "loss", "acc"}
None == "None"
\* Weights no mode of main predicts with: the random initial weights of the
\* student, and the weights fit leaves in it.
Untrained == "untrained"
Fitted == "fitted"

VARIABLES
    args,           \* the parsed mode flags
    pc,             \* position of the single thread of control
    called,         \* the Imitation methods called on the object, in order
    expert, model,  \* self.expert and self.model, None before __init__: a prediction
                    \* table once weights are loaded, else Untrained or Fitted
    fs,             \* model/<log_dir>.h5, loss/<log_dir>.txt, acc/<log_dir>.txt: "present"
                    \* or "absent" once the run has written or looked for the file
    policy,         \* "expert" or "model": the network driving the current episode
    observation, states, actions, rewards,      \* locals of generate_episode
    envLog,         \* generate_episode's calls of env.step since its reset, with the answers
    answers,        \* evaluate's (reward, done) answers of env.step since its last reset
    num_episodes, j, train_states, train_actions,   \* locals of train
    returned,       \* the (state, action) entries run_expert has returned to train, in order
    history,        \* fit's history.history, as train wrote it to loss/ and acc/
    result,         \* the return value of train or run_model
    eval_episodes, i, total_reward, expert_rewards, model_rewards,  \* locals of evaluate
    printed,        \* the lines evaluate printed
    shown,          \* the charts plot has shown
    expert_actions, \* run_model's relabelling
    error           \* the uncaught exception that ended the run, None if none

vars == <<args, pc, called, expert, model, fs, policy, observation, states,
          actions, rewards, envLog, answers, num_episodes, j, train_states, train_actions,
          returned, history, result, eval_episodes, i, total_reward, expert_rewards,
          model_rewards, printed, shown, expert_actions, error>>

genVars == <<policy, observation, states, actions, rewards, envLog>>
trainVars == <<num_episodes, j, train_states, train_actions, returned, history, result>>
evalVars == <<answers, eval_episodes, i, total_reward, expert_rewards, model_rewards,
             printed>>
objVars == <<expert, model>>

\* ----------------------------------------------------------------- helpers
\* np.argmax: the first index holding the maximum.
Argmax(v) ==
    CHOOSE a \in DOMAIN v :
        /\ \A b \in DOMAIN v : v[b] <= v[a]
        /\ \A b \in DOMAIN v : b < a => v[b] < v[a]

\* np.zeros(n) with no entry set.
OneHotUnset(n, action) == [k \in 0 .. (n - 1) |-> 0]

\* np.zeros(n) with entry `action` set to 1.
OneHot(n, action) == [k \in 0 .. (n - 1) |-> IF k = action THEN 1 ELSE 0]

\* np.argmax(net.predict(np.expand_dims(obs, axis=0)))
Greedy(net, obs) == Argmax(net[obs])

Network(p) == IF p = "expert" THEN expert ELSE model

Last(s) == s[Len(s)]

\* ------------------------------------------------------- the environment
\* One env.step(action) taken at observation `at`: any observation, reward and
\* done flag may come back; an episode ends by its MaxSteps-th step.
StepAnswers(taken) ==
    {ans \in [observation : Observations, reward : Rewards, done : BOOLEAN] :
        taken + 1 >= MaxSteps => ans.done}

Logged(at, action, ans) ==
    [at |-> at, action |-> action, observation |-> ans.observation,
     reward |-> ans.reward, done |-> ans.done]

\* ----------------------------------------------------- generate_episode
\* Appending before the done check.
RecordedAlways(list, x, done) == Append(list, x)

\* The loop body after env.step, lines 86-92: break on done, else append.
Recorded(list, x, done) == IF done THEN list ELSE Append(list, x)

\* Lines 72-76: empty lists and env.reset().
GenStart(p) ==
    /\ policy' = p
    /\ states' = <<>>
    /\ actions' = <<>>
    /\ rewards' = <<>>
    /\ envLog' = <<>>
    /\ \E o \in Observations : observation' = o

\* One iteration of the while loop, lines 81-92.
GenStep ==
    /\ pc = "gen_step"
    /\ LET action == Greedy(Network(policy), observation) IN
       \E ans \in StepAnswers(Len(envLog)) :
          /\ envLog' = Append(envLog, Logged(observation, action, ans))
          /\ observation' = ans.observation
          /\ states' = Recorded(states, ans.observation, ans.done)
          /\ actions' = Recorded(actions, OneHot(NActions, action), ans.done)
          /\ rewards' = Recorded(rewards, ans.reward, ans.done)
          /\ pc' = IF ans.done THEN "gen_return" ELSE "gen_step"
    /\ UNCHANGED <<args, called, objVars, fs, policy, trainVars, evalVars, shown,
                   expert_actions, error>>

\* ---------------------------------------------------------------- train
\* np.concatenate([rows, np.array(new)], axis=0) with rows two-dimensional:
\* np.array([]) is one-dimensional, so an empty list raises ValueError.
CanConcatenate(new) == new # <<>>

Concatenate(rows, new) == rows \o new

\* The last epoch's values instead of the first.
ReturnedLast(h) == <<h.loss[Len(h.loss)], h.acc[Len(h.acc)]>>

\* Line 137: history.history['loss'][0], history.history['acc'][0].
Returned(h) == <<h.loss[1], h.acc[1]>>

\* history.history of a fit over `epochs` epochs: one loss and one acc per epoch.
Histories(epochs) ==
    {[loss |-> [e \in 1 .. epochs |-> h[e].loss], acc |-> [e \in 1 .. epochs |-> h[e].acc]] :
        h \in [1 .. epochs -> EpochMetrics]}

\* Lines 109-110 with lines 72-76: the next expert episode starts.
TrainRunExpert ==
    /\ pc = "train_loop"
    /\ j < num_episodes
    /\ GenStart("expert")
    /\ pc' = "gen_step"
    /\ UNCHANGED <<args, called, objVars, fs, trainVars, evalVars, shown,
                   expert_actions, error>>

\* Lines 110-112: the episode is returned and appended to the dataset.
TrainConcat ==
    /\ pc = "gen_return"
    /\ Last(called) = "train"
    /\ returned' = returned \o [k \in 1 .. Len(states) |-> <<states[k], actions[k]>>]
    /\ IF CanConcatenate(states)
       THEN /\ train_states' = Concatenate(train_states, states)
            /\ train_actions' = Concatenate(train_actions, actions)
            /\ j' = j + 1
            /\ pc' = "train_loop"
            /\ error' = error
       ELSE /\ error' = "ValueError: concatenate"
            /\ pc' = "raised"
            /\ UNCHANGED <<train_states, train_actions, j>>
    /\ states' = <<>>
    /\ actions' = <<>>
    /\ rewards' = <<>>
    /\ envLog' = <<>>
    /\ observation' = None
    /\ UNCHANGED <<args, called, objVars, fs, policy, num_episodes, history,
                   result, evalVars, shown, expert_actions>>

\* Lines 115-137: fit, save the weights and the history, return.
TrainFit ==
    /\ pc = "train_loop"
    /\ j >= num_episodes
    /\ \E epochs \in 0 .. MaxEpochs : \E h \in Histories(epochs) :
          /\ history' = h
          /\ IF epochs >= 1
             THEN /\ result' = Returned(h)
                  /\ pc' = "done"
                  /\ error' = error
             ELSE /\ result' = result
                  /\ pc' = "raised"
                  /\ error' = "IndexError: history"
    /\ model' = Fitted
    /\ fs' = [f \in Files |-> "present"]
    /\ train_states' = <<>>
    /\ train_actions' = <<>>
    /\ returned' = <<>>
    /\ UNCHANGED <<args, called, expert, genVars, num_episodes, j, evalVars, shown,
                   expert_actions>>

\* ------------------------------------------------------------- evaluate
\* Adding the reward before the done check.
AccumulateAlways(total, reward, done) == total + reward

\* Lines 154-156 and 171-173: break on done, else add the reward.
Accumulate(total, reward, done) == IF done THEN total ELSE total + reward

\* A load that keeps going without the file.
LoadsSilently(found) == TRUE

\* load_weights succeeds exactly when the file exists.
Loads(found) == found

\* Lines 145-146 and 162-163: total_reward = 0 and env.reset().
EvalReset(p) ==
    /\ policy' = p
    /\ total_reward' = 0
    /\ answers' = <<>>
    /\ \E o \in Observations : observation' = o
    /\ UNCHANGED <<args, called, objVars, fs, states, actions, rewards, envLog, trainVars,
                   eval_episodes, i, expert_rewards, model_rewards, printed, shown,
                   expert_actions, error>>

\* One iteration of a while loop of evaluate on network p, up to the append.
EvalStep(p) ==
    LET action == Greedy(Network(p), observation) IN
    \E ans \in StepAnswers(Len(answers)) :
       /\ action \in Actions
       /\ answers' = Append(answers, [reward |-> ans.reward, done |-> ans.done])
       /\ observation' = ans.observation
       /\ total_reward' = Accumulate(total_reward, ans.reward, ans.done)
       /\ i' = IF ans.done THEN i + 1 ELSE i

\* Lines 157 and 174: after the break the total is appended.
Appended(totals, total, done) == IF done THEN Append(totals, total) ELSE totals

\* Lines 144-148.
EvalExpertReset ==
    /\ pc = "eval_expert"
    /\ i < eval_episodes
    /\ EvalReset("expert")
    /\ pc' = "eval_expert_step"

\* Lines 149-157.
EvalExpertStep ==
    /\ pc = "eval_expert_step"
    /\ EvalStep("expert")
    /\ expert_rewards' = Appended(expert_rewards, total_reward', Last(answers').done)
    /\ model_rewards' = model_rewards
    /\ pc' = IF Last(answers').done THEN "eval_expert" ELSE "eval_expert_step"
    /\ UNCHANGED <<args, called, objVars, fs, policy, states, actions, rewards, envLog,
                   trainVars, eval_episodes, printed, shown, expert_actions, error>>

\* Line 160: self.model.load_weights("model/{}.h5".format(log_dir)).
EvalLoad ==
    /\ pc = "eval_expert"
    /\ i >= eval_episodes
    /\ \E found \in BOOLEAN :
          /\ fs' = [fs EXCEPT !["model"] = IF found THEN "present" ELSE "absent"]
          /\ IF Loads(found)
             THEN /\ \E w \in Networks : model' = w
                  /\ i' = 0
                  /\ pc' = "eval_model"
                  /\ error' = error
             ELSE /\ error' = "OSError: load_weights"
                  /\ pc' = "raised"
                  /\ UNCHANGED <<model, i>>
    /\ UNCHANGED <<args, called, expert, genVars, trainVars, answers, eval_episodes,
                   total_reward, expert_rewards, model_rewards, printed, shown, expert_actions>>

\* Lines 161-165.
EvalModelReset ==
    /\ pc = "eval_model"
    /\ i < eval_episodes
    /\ EvalReset("model")
    /\ pc' = "eval_model_step"

\* Lines 166-174.
EvalModelStep ==
    /\ pc = "eval_model_step"
    /\ EvalStep("model")
    /\ model_rewards' = Appended(model_rewards, total_reward', Last(answers').done)
    /\ expert_rewards' = expert_rewards
    /\ pc' = IF Last(answers').done THEN "eval_model" ELSE "eval_model_step"
    /\ UNCHANGED <<args, called, objVars, fs, policy, states, actions, rewards, envLog,
                   trainVars, eval_episodes, printed, shown, expert_actions, error>>

\* Lines 176-177.
EvalPrint ==
    /\ pc = "eval_model"
    /\ i >= eval_episodes
    /\ printed' = <<[policy |-> "Expert Policy", totals |-> expert_rewards],
                    [policy |-> "Cloned Policy", totals |-> model_rewards]>>
    /\ pc' = "done"
    /\ UNCHANGED <<args, called, objVars, fs, genVars, trainVars, answers, eval_episodes,
                   i, total_reward, expert_rewards, model_rewards, shown, expert_actions,
                   error>>

\* ----------------------------------------------------------------- plot
\* Lines 181-195: np.loadtxt raises on an absent file.
Plot ==
    /\ pc = "plot"
    /\ \E lossFound \in BOOLEAN, accFound \in BOOLEAN :
          IF ~lossFound
          THEN /\ fs' = [fs EXCEPT !["loss"] = "absent"]
               /\ shown' = shown
               /\ error' = "OSError: loadtxt loss"
               /\ pc' = "raised"
          ELSE IF ~accFound
          THEN /\ fs' = [fs EXCEPT !["loss"] = "present", !["acc"] = "absent"]
               /\ shown' = <<"training loss">>
               /\ error' = "OSError: loadtxt acc"
               /\ pc' = "raised"
          ELSE /\ fs' = [fs EXCEPT !["loss"] = "present", !["acc"] = "present"]
               /\ shown' = <<"training loss", "training accuracy">>
               /\ error' = error
               /\ pc' = "done"
    /\ UNCHANGED <<args, called, objVars, genVars, trainVars, evalVars, expert_actions>>

\* ----------------------------------------------------------------- main
\* The chain with the test branch first.
DispatchTestFirst(a) ==
    IF a.test THEN "evaluate"
    ELSE IF a.train THEN "train"
    ELSE IF a.plot THEN "plot"
    ELSE None

\* Lines 231-236: the if / elif / elif chain over the three flags.
Dispatch(a) ==
    IF a.train THEN "train"
    ELSE IF a.test THEN "evaluate"
    ELSE IF a.plot THEN "plot"
    ELSE None

\* Lines 225-236: Imitation(args), then the call of the chosen mode with its
\* arguments bound.
Main ==
    /\ pc = "main"
    /\ \E w \in Networks : expert' = w
    /\ model' = Untrained
    /\ LET mode == Dispatch(args) IN
       /\ called' = IF mode = None THEN called ELSE Append(called, mode)
       /\ pc' = CASE mode = "train" -> "train_loop"
                  [] mode = "evaluate" -> "eval_expert"
                  [] mode = "plot" -> "plot"
                  [] OTHER -> "done"
       /\ IF mode = "train"
          THEN \E n \in 0 .. MaxEpisodes : num_episodes' = n
          ELSE num_episodes' = num_episodes
       /\ IF mode = "evaluate"
          THEN \E n \in 0 .. MaxEvalEpisodes : eval_episodes' = n
          ELSE eval_episodes' = eval_episodes
    /\ UNCHANGED <<args, fs, genVars, j, train_states, train_actions, returned, history,
                   result, answers, i, total_reward, expert_rewards, model_rewards,
                   printed, shown, expert_actions, error>>

\* ------------------------------------------------------------ run_model
\* The label taken from the student instead of the expert.
StudentLabel(s) == OneHot(NActions, Greedy(model, s))

\* Lines 54-57: the expert's one-hot greedy action at each visited state.
ExpertLabel(s) == OneHot(NActions, Greedy(expert, s))

Relabel(visited) == [k \in 1 .. Len(visited) |-> ExpertLabel(visited[k])]

\* Line 52 with lines 72-76: the student's episode starts.
RunModelCall ==
    /\ pc = "run_model"
    /\ GenStart("model")
    /\ called' = Append(called, "run_model")
    /\ pc' = "gen_step"
    /\ UNCHANGED <<args, objVars, fs, trainVars, evalVars, shown, expert_actions, error>>

\* Lines 52-58: the episode is returned, relabelled and returned.
RunModelRelabel ==
    /\ pc = "gen_return"
    /\ Last(called) = "run_model"
    /\ expert_actions' = Relabel(states)
    /\ result' = <<states, expert_actions', rewards>>
    /\ pc' = "done"
    /\ UNCHANGED <<args, called, objVars, fs, genVars, num_episodes, j, train_states,
                   train_actions, returned, history, evalVars, shown, error>>

\* ------------------------------------------------------- specifications
Flags == [train : BOOLEAN, test : BOOLEAN, plot : BOOLEAN]

InitLocals ==
    /\ policy = None
    /\ observation = None
    /\ states = <<>>
    /\ actions = <<>>
    /\ rewards = <<>>
    /\ envLog = <<>>
    /\ answers = <<>>
    /\ j = 0
    /\ train_states = <<>>
    /\ train_actions = <<>>
    /\ returned = <<>>
    /\ history = None
    /\ result = None
    /\ i = 0
    /\ total_reward = 0
    /\ expert_rewards = <<>>
    /\ model_rewards = <<>>
    /\ printed = <<>>
    /\ shown = <<>>
    /\ expert_actions = <<>>
    /\ error = None
    /\ fs = [f \in Files |-> "unknown"]

\* The program: parse_arguments, then main(args).
Init ==
    /\ args \in Flags
    /\ pc = "main"
    /\ expert = None
    /\ model = None
    /\ InitLocals
    /\ called = <<>>
    /\ num_episodes = 0
    /\ eval_episodes = 0

Next ==
    \/ Main
    \/ TrainRunExpert
    \/ GenStep
    \/ TrainConcat
    \/ TrainFit
    \/ EvalExpertReset
    \/ EvalExpertStep
    \/ EvalLoad
    \/ EvalModelReset
    \/ EvalModelStep
    \/ EvalPrint
    \/ Plot

Spec == Init /\ [][Next]_vars

NoFlags == [train |-> FALSE, test |-> FALSE, plot |-> FALSE]

\* The program run with --train alone, from the call of train on.
InitTrain ==
    /\ args = [NoFlags EXCEPT !.train = TRUE]
    /\ pc = "train_loop"
    /\ expert \in Networks
    /\ model = Untrained
    /\ InitLocals
    /\ called = <<"train">>
    /\ num_episodes \in 0 .. MaxEpisodes
    /\ eval_episodes = 0

NextTrain ==
    \/ TrainRunExpert
    \/ GenStep
    \/ TrainConcat
    \/ TrainFit

SpecTrain == InitTrain /\ [][NextTrain]_vars

\* The program run with --test alone, from the call of evaluate on.
InitEvaluate ==
    /\ args = [NoFlags EXCEPT !.test = TRUE]
    /\ pc = "eval_expert"
    /\ expert \in Networks
    /\ model = Untrained
    /\ InitLocals
    /\ called = <<"evaluate">>
    /\ num_episodes = 0
    /\ eval_episodes \in 0 .. MaxEvalEpisodes

NextEvaluate ==
    \/ EvalExpertReset
    \/ EvalExpertStep
    \/ EvalLoad
    \/ EvalModelReset
    \/ EvalModelStep
    \/ EvalPrint

SpecEvaluate == InitEvaluate /\ [][NextEvaluate]_vars

\* A call of run_model on a constructed Imitation object.
InitRunModel ==
    /\ args = NoFlags
    /\ pc = "run_model"
    /\ expert \in Networks
    /\ model \in Networks
    /\ InitLocals
    /\ called = <<>>
    /\ num_episodes = 0
    /\ eval_episodes = 0

NextRunModel ==
    \/ RunModelCall
    \/ GenStep
    \/ RunModelRelabel

SpecRunModel == InitRunModel /\ [][NextRunModel]_vars

\* ------------------------------------------------------------ properties
\* v is a vector over the environment's actions with a single 1, at index a.
IsOneHotAt(v, a) ==
    /\ DOMAIN v = Actions
    /\ a \in Actions
    /\ \A b \in Actions : v[b] = (IF b = a THEN 1 ELSE 0)

\* The entries of the step log answered with done = FALSE, in order.
NonTerminal(log) == SelectSeq(log, LAMBDA e : ~e.done)

RECURSIVE SumRewards(_)
SumRewards(log) ==
    IF log = <<>> THEN 0 ELSE log[1].reward + SumRewards(Tail(log))

\* C1: the three lists generate_episode returns have the same length, and each
\* element of actions is one-hot over the environment's actions, its 1 at the
\* index of the action passed to env.step at that timestep.
C1_TraceAligned ==
    pc = "gen_return" =>
        /\ Len(states) = Len(actions)
        /\ Len(actions) = Len(rewards)
        /\ \A k \in 1 .. Len(actions) : IsOneHotAt(actions[k], envLog[k].action)

C1_Witness ==
    /\ pc = "gen_return"
    /\ Len(actions) = 2
    /\ actions[1] # actions[2]

\* C2: when done first comes back on the k-th step, env.step has been called
\* exactly k times and the trace has k-1 entries, entry n holding the
\* observation and reward the n-th step returned and the one-hot of the greedy
\* action passed to it; nothing of the k-th step is in the trace, nor is the
\* observation reset returned.
C2_TerminalStepDropped ==
    /\ pc = "gen_step" => \A n \in 1 .. Len(envLog) : ~envLog[n].done
    /\ pc = "gen_return" =>
        LET k == Len(envLog) IN
        /\ k >= 1
        /\ envLog[k].done
        /\ \A n \in 1 .. (k - 1) : ~envLog[n].done
        /\ Len(states) = k - 1
        /\ Len(actions) = k - 1
        /\ Len(rewards) = k - 1
        /\ \A n \in 1 .. (k - 1) :
              /\ states[n] = envLog[n].observation
              /\ rewards[n] = envLog[n].reward
              /\ envLog[n].action = Argmax(Network(policy)[envLog[n].at])
              /\ IsOneHotAt(actions[n], envLog[n].action)

C2_Witness ==
    /\ pc = "gen_return"
    /\ Len(envLog) = 3
    /\ Len(states) = 2
    /\ envLog[1].at # states[1]
    /\ envLog[3].observation # states[2]
    /\ envLog[3].reward # rewards[2]

\* C3: in both loops of evaluate the running total is 0 after a reset and is the
\* sum of the rewards answered with done = FALSE; the total appended for an
\* episode leaves out the reward that came with done = TRUE; each list ends
\* with eval_episodes entries.
C3_TotalsExcludeTerminal ==
    /\ pc \in {"eval_expert_step", "eval_model_step"} =>
          /\ NonTerminal(answers) = answers
          /\ total_reward = SumRewards(answers)
    /\ pc = "eval_expert_step" => Len(expert_rewards) = i
    /\ pc = "eval_model_step" => Len(model_rewards) = i
    /\ (pc = "eval_expert" /\ i >= 1) =>
          /\ Len(expert_rewards) = i
          /\ Last(answers).done
          /\ Last(expert_rewards) = SumRewards(NonTerminal(answers))
    /\ (pc \in {"eval_model", "done"} /\ i >= 1) =>
          /\ Len(model_rewards) = i
          /\ Last(answers).done
          /\ Last(model_rewards) = SumRewards(NonTerminal(answers))
    /\ pc = "done" =>
          /\ Len(expert_rewards) = eval_episodes
          /\ Len(model_rewards) = eval_episodes

C3_Witness ==
    /\ pc = "done"
    /\ expert_rewards = <<1>>
    /\ model_rewards = <<2>>
    /\ answers = <<[reward |-> 1, done |-> FALSE], [reward |-> 1, done |-> FALSE],
                   [reward |-> 1, done |-> TRUE]>>

C5_ReturnsFinalEpoch ==
    (pc = "done" /\ called = <<"train">>) =>
        result = <<Last(history.loss), Last(history.acc)>>

\* C6: for episodes of any trace length, the empty trace included, every
\* iteration of train's loop completes, and after it the dataset has as many
\* state rows as action rows, the rows being the returned entries in order.
C6_DatasetIsAllEpisodes ==
    called = <<"train">> =>
        /\ error # "ValueError: concatenate"
        /\ pc = "train_loop" =>
              /\ Len(train_states) = Len(train_actions)
              /\ Len(train_states) = Len(returned)
              /\ \A k \in 1 .. Len(returned) :
                    returned[k] = <<train_states[k], train_actions[k]>>

\* C7: every row (s, a) of the dataset pairs s with the one-hot of the
\* expert's greedy action at s itself.
C7_RowsPairStateWithItsAction ==
    called = <<"train">> =>
        \A k \in 1 .. Len(train_states) :
            k <= Len(train_actions) =>
                IsOneHotAt(train_actions[k], Argmax(expert[train_states[k]]))

\* C8: the student's weights are loaded after all eval_episodes expert
\* episodes, student episodes run only after the load has succeeded, and with
\* no weights file evaluate ends at the load: no student episode, no report.
C8_LoadBeforeStudent ==
    /\ fs["model"] # "unknown" => Len(expert_rewards) = eval_episodes
    /\ (policy = "model" \/ pc \in {"eval_model", "eval_model_step"}) =>
          /\ fs["model"] = "present"
          /\ model \in Networks
    /\ fs["model"] = "absent" =>
          /\ pc = "raised"
          /\ error = "OSError: load_weights"
          /\ policy # "model"
          /\ model = Untrained
          /\ model_rewards = <<>>
          /\ printed = <<>>
    /\ printed # <<>> => (pc = "done" /\ fs["model"] = "present")

C8_Witness ==
    /\ fs["model"] = "absent"
    /\ pc = "raised"
    /\ eval_episodes = 1
    /\ expert_rewards = <<1>>
    /\ policy = "expert"

\* C9: run_model returns the student's trace with each state labelled by the
\* one-hot of the expert's greedy action at that state; only the student's
\* actions were passed to env.step.
C9_ExpertRelabelsStudentTrace ==
    (pc = "done" /\ called = <<"run_model">>) =>
        /\ result[1] = states
        /\ result[3] = rewards
        /\ Len(result[2]) = Len(states)
        /\ Len(states) = Len(rewards)
        /\ \A k \in 1 .. Len(states) :
              /\ IsOneHotAt(result[2][k], Argmax(expert[states[k]]))
              /\ states[k] = envLog[k].observation
              /\ rewards[k] = envLog[k].reward
        /\ policy = "model"
        /\ \A n \in 1 .. Len(envLog) : envLog[n].action = Argmax(model[envLog[n].at])

C9_Witness ==
    /\ pc = "done"
    /\ called = <<"run_model">>
    /\ Len(result[2]) = 2
    /\ result[2][1] # actions[1]
    /\ result[2][2] = actions[2]
    /\ \E n \in 1 .. Len(envLog) : envLog[n].action # Argmax(expert[envLog[n].at])

\* C10: main rejects no combination of the flags and runs at most one mode:
\* train if --train, else evaluate if --test, else plot if --plot, else none.
TrainPositions == {"train_loop", "gen_step", "gen_return"}
EvaluatePositions == {"eval_expert", "eval_expert_step", "eval_model", "eval_model_step"}

C10_OneModeByPriority ==
    /\ pc = "main" => (called = <<>> /\ ENABLED Main)
    /\ pc # "main" =>
          /\ expert \in Networks
          /\ called = (IF args.train THEN <<"train">>
                       ELSE IF args.test THEN <<"evaluate">>
                       ELSE IF args.plot THEN <<"plot">>
                       ELSE <<>>)
    /\ pc \in TrainPositions => called = <<"train">>
    /\ pc \in EvaluatePositions => called = <<"evaluate">>
    /\ pc = "plot" => called = <<"plot">>
    /\ called # <<"train">> => (result = None /\ history = None /\ train_states = <<>>)
    /\ called # <<"evaluate">> => (answers = <<>> /\ printed = <<>> /\ expert_rewards = <<>>)
    /\ called # <<"plot">> => shown = <<>>
    /\ called = <<>> => (pc \in {"main", "done"} /\ error = None
                         /\ fs = [f \in Files |-> "unknown"])

C10_Witness ==
    /\ args = [train |-> TRUE, test |-> TRUE, plot |-> TRUE]
    /\ pc = "done"
    /\ called = <<"train">>
    /\ result # None
    /\ printed = <<>>
    /\ shown = <<>>

====
